---- MODULE Spec2Model ----
(***************************************************************************)
(* Model of favannat's feedforward stage compiler                          *)
(* (MatrixFeedforwardFabricator::fabricate), of the evaluation of the      *)
(* compiled stages, and of the cycle unroller (net::unroll).               *)
(*                                                                         *)
(* f32 values are modelled by integers (all weights, inputs and            *)
(* activations of the modelled nets are integer valued, so every f32       *)
(* operation on them is exact); f32::NAN, which the code uses as the       *)
(* "no dependency" marker of a compute vector, is the distinguished value  *)
(* NAN.  The iteration order of the HashMap dependency_graph is not fixed  *)
(* by the code: it is a nondeterministic choice of a permutation of the    *)
(* keys in every round.                                                    *)
(***************************************************************************)
EXTENDS Integers, Sequences, FiniteSets, TLC

VARIABLES
    net,                    \* the caller's graph (a Net)
    pc,                     \* "idle" | "loop" | "done" | "evaluated"
    dependency_graph,       \* node id -> sequence of its incoming edges
    dependency_count,
    compute_stages,         \* sequence of stage matrices (sequences of columns)
    stage_transformations,  \* sequence of transformation lists
    available_nodes,
    wanted_nodes,
    stage_matrix,           \* the last round's columns, before the terminal reorder
    transformations,        \* the last round's transformations, before the reorder
    next_available_nodes,   \* the last round's produced/carried node ids
    result,                 \* "none" | "Ok" | "Empty" | "Unresolvable" | "IncompleteOutputs" | "panic"
    output_rows,            \* input row -> the row evaluate returned for it
    compiles,               \* number of fabricate calls started on net
    prev,                   \* what the previous fabricate call on net returned
    known_inputs,           \* unroll: the input nodes collected so far
    known_outputs,          \* unroll: the output nodes collected so far
    known_edges,            \* unroll: the edges collected so far
    unroll_map,             \* unroll: node id -> id of its wrapper input
    tmp_ids,                \* unroll: the next id of the range of wrapper ids
    edge_index,             \* unroll: position in recurrent_edges()
    unrolled                \* the Net unroll returned

vars == <<net, pc, dependency_graph, dependency_count, compute_stages,
          stage_transformations, available_nodes, wanted_nodes, stage_matrix,
          transformations, next_available_nodes, result, output_rows,
          compiles, prev, known_inputs, known_outputs, known_edges,
          unroll_map, tmp_ids, edge_index, unrolled>>

fabricate_vars == <<dependency_graph, dependency_count, compute_stages,
                    stage_transformations, available_nodes, wanted_nodes,
                    stage_matrix, transformations, next_available_nodes, result,
                    output_rows, compiles, prev>>

unroll_vars == <<known_inputs, known_outputs, known_edges, unroll_map, tmp_ids,
                 edge_index, unrolled>>

----------------------------------------------------------------------------
\* Bounds of the model

\* number of nodes of a modelled net (ids 0 .. NumNodes-1, as nodes! numbers them)
NumNodes == 4
\* largest number of edges in the edge list
MaxEdges == 4
\* largest number of declared inputs, and of declared outputs
MaxIO == 2
\* number of times fabricate is called on the same net
MaxCompiles == 2
\* number of nodes of a net handed to unroll
UnrollNodes == 3
\* largest number of (non-recurrent) edges of a net handed to unroll
MaxUnrollEdges == 2
\* largest number of recurrent edges of a net handed to unroll
MaxRecurrent == 2
\* width of usize in bits (64 on the usual targets)
UsizeBits == 5

----------------------------------------------------------------------------
\* Sequences

Contains(s, x) == \E i \in 1..Len(s) : s[i] = x

Last(s) == s[Len(s)]

RECURSIVE Insert(_, _)
Insert(s, x) ==
    IF s = <<>> THEN <<x>>
    ELSE IF x <= Head(s) THEN <<x>> \o s
    ELSE <<Head(s)>> \o Insert(Tail(s), x)

RECURSIVE SortUnstable(_)
SortUnstable(s) ==
    IF s = <<>> THEN <<>> ELSE Insert(SortUnstable(Tail(s)), Head(s))

RECURSIVE Perms(_)
Perms(S) ==
    IF S = {} THEN {<<>>}
    ELSE UNION {{<<x>> \o p : p \in Perms(S \ {x})} : x \in S}

Reverse(s) == [i \in 1..Len(s) |-> s[Len(s) + 1 - i]]

----------------------------------------------------------------------------
\* f32

NAN == 1000000

\* is_nan that takes 0.0 for the marker too
IsNan_OrZero(x) == x = NAN \/ x = 0

IsNan(x) == x = NAN

\* activations of net::activations, by the letter nodes! gives them
Activation(a, val) ==
    CASE a = "l" -> val
      [] a = "i" -> 0 - val
      [] a = "r" -> IF 0 > val THEN 0 ELSE val
      [] a = "q" -> val * val
      [] a = "id" -> val

----------------------------------------------------------------------------
\* Net (network/mod.rs)

NetInputs(n) == SubSeq(n.nodes, 1, n.inputs)

NetOutputs(n) == SubSeq(n.nodes, Len(n.nodes) - n.outputs + 1, Len(n.nodes))

NetHidden(n) == SubSeq(n.nodes, n.inputs + 1, Len(n.nodes) - n.outputs)

Ids(nodes) == [i \in 1..Len(nodes) |-> nodes[i].id]

----------------------------------------------------------------------------
\* fabricate (matrix/feedforward/fabricator.rs)

\* BuildDependencyGraph with the first edge of the list left out
BuildDependencyGraph_SkipFirst(edges) ==
    LET rest == IF edges = <<>> THEN <<>> ELSE Tail(edges) IN
    [n \in {rest[i].end : i \in 1..Len(rest)} |->
        SelectSeq(rest, LAMBDA e : e.end = n)]

\* lines 27-34: the incoming edges of every edge end, in declaration order
BuildDependencyGraph(edges) ==
    [n \in {edges[i].end : i \in 1..Len(edges)} |->
        SelectSeq(edges, LAMBDA e : e.end = n)]

\* lines 77-92: NAN everywhere, then every dependency in turn writes its weight
\* at every position of available_nodes that holds its start
ComputeOrCarry(dependencies, available) ==
    [index \in 1..Len(available) |->
        LET hits == {j \in 1..Len(dependencies) :
                        dependencies[j].start = available[index]}
        IN  IF hits = {} THEN NAN
            ELSE dependencies[CHOOSE j \in hits : \A k \in hits : k <= j].weight]

\* lines 75, 80-91: every dependency's start is found in available_nodes
Computable(dependencies, available) ==
    \A j \in 1..Len(dependencies) : Contains(available, dependencies[j].start)

\* lines 104-108: the activation of the first node with the id (every edge end
\* of the modelled nets is a declared node, so find(..) is never None)
NodeActivation(n, id) ==
    LET i == CHOOSE k \in 1..Len(n.nodes) :
                 /\ n.nodes[k].id = id
                 /\ \A m \in 1..(k - 1) : n.nodes[m].id # id
    IN  n.nodes[i].activation

\* lines 121-128 and 143-150: a one-hot column, the identity, the carried id
PushCarry(acc, index, available) ==
    [stage_matrix |-> Append(acc.stage_matrix,
                         [i \in 1..Len(available) |-> IF i = index THEN 1 ELSE 0]),
     transformations |-> Append(acc.transformations, "id"),
     next_available_nodes |-> Append(acc.next_available_nodes, available[index])]

\* FigureOutCarries with no dependency carried
FigureOutCarries_NothingCarried(acc, compute_or_carry, available, index) == acc

\* lines 114-130
RECURSIVE FigureOutCarries(_, _, _, _)
FigureOutCarries(acc, compute_or_carry, available, index) ==
    IF index > Len(available) THEN acc
    ELSE IF /\ ~Contains(acc.next_available_nodes, available[index])
            /\ ~IsNan(compute_or_carry[index])
         THEN FigureOutCarries(PushCarry(acc, index, available),
                               compute_or_carry, available, index + 1)
         ELSE FigureOutCarries(acc, compute_or_carry, available, index + 1)

\* lines 73-131: the loop body for one entry of dependency_graph
ScanNode(acc, n, dependent_node, dependencies, available) ==
    LET compute_or_carry == ComputeOrCarry(dependencies, available) IN
    IF Computable(dependencies, available)
    THEN [stage_matrix |-> Append(acc.stage_matrix,
                 [i \in 1..Len(available) |->
                     IF IsNan(compute_or_carry[i]) THEN 0 ELSE compute_or_carry[i]]),
          transformations |-> Append(acc.transformations,
                                     NodeActivation(n, dependent_node)),
          next_available_nodes |-> Append(acc.next_available_nodes, dependent_node)]
    ELSE FigureOutCarries(acc, compute_or_carry, available, 1)

\* lines 73-132: the scan of dependency_graph in the order the map iterates
RECURSIVE Scan(_, _, _, _, _)
Scan(acc, n, graph, available, order) ==
    IF order = <<>> THEN acc
    ELSE Scan(ScanNode(acc, n, Head(order), graph[Head(order)], available),
              n, graph, available, Tail(order))

\* lines 135-154
RECURSIVE KeepWanted(_, _, _, _, _)
KeepWanted(acc, wanted, available, w, index) ==
    IF w > Len(wanted) THEN acc
    ELSE IF index > Len(available) THEN KeepWanted(acc, wanted, available, w + 1, 1)
    ELSE IF /\ available[index] = wanted[w]
            /\ ~Contains(acc.next_available_nodes, available[index])
         THEN KeepWanted(PushCarry(acc, index, available), wanted, available, w, index + 1)
         ELSE KeepWanted(acc, wanted, available, w, index + 1)

\* lines 157-159
RemoveResolved(graph, next) ==
    [k \in DOMAIN graph \ {next[i] : i \in 1..Len(next)} |-> graph[k]]

\* lines 184-191: the first position of wanted_nodes holding the node, 0 if none
WantedIndex(wanted, node) ==
    IF Contains(wanted, node)
    THEN CHOOSE index \in 1..Len(wanted) :
             /\ wanted[index] = node
             /\ \A k \in 1..(index - 1) : wanted[k] # node
    ELSE 0

\* lines 174-192: columns and transformations moved to the position of their
\* node in wanted_nodes; writing past the end of the cloned vectors panics
RECURSIVE Reorder(_, _, _, _)
Reorder(acc, round, wanted, i) ==
    IF i > Len(round.next_available_nodes) \/ acc.panicked THEN acc
    ELSE LET index == WantedIndex(wanted, round.next_available_nodes[i]) IN
         IF index = 0 THEN Reorder(acc, round, wanted, i + 1)
         ELSE IF index > Len(acc.reordered_matrix)
              THEN [acc EXCEPT !.panicked = TRUE]
              ELSE Reorder(
                     [reordered_matrix |->
                          [acc.reordered_matrix EXCEPT ![index] = round.stage_matrix[i]],
                      reordered_transformations |->
                          [acc.reordered_transformations EXCEPT
                               ![index] = round.transformations[i]],
                      matched_wanted_count |-> acc.matched_wanted_count + 1,
                      panicked |-> FALSE],
                     round, wanted, i + 1)

\* ReorderLastStage with the matched outputs counted but no column moved
ReorderLastStage_NothingMoved(round, wanted) ==
    [reordered_matrix |-> round.stage_matrix,
     reordered_transformations |-> round.transformations,
     matched_wanted_count |->
         Cardinality({i \in 1..Len(round.next_available_nodes) :
                         Contains(wanted, round.next_available_nodes[i])}),
     panicked |-> FALSE]

\* lines 174-192: the clones of the last round's vectors, reordered
ReorderLastStage(round, wanted) ==
    Reorder([reordered_matrix |-> round.stage_matrix,
             reordered_transformations |-> round.transformations,
             matched_wanted_count |-> 0,
             panicked |-> FALSE],
            round, wanted, 1)

EmptyRound ==
    [stage_matrix |-> <<>>, transformations |-> <<>>, next_available_nodes |-> <<>>]

\* lines 67-154: one pass of the while loop up to the removal
RoundOf(n, graph, available, wanted, order) ==
    KeepWanted(Scan(EmptyRound, n, graph, available, order), wanted, available, 1, 1)

----------------------------------------------------------------------------
\* evaluate (section 4.3 of the specification; the evaluator's source is not
\* part of the modelled files)

RECURSIVE Dot(_, _, _)
Dot(row, column, i) ==
    IF i > Len(column) THEN 0
    ELSE row[i] * column[i] + Dot(row, column, i + 1)

\* the running row times the stage's matrix, then the transformations
ApplyStage(row, matrix, trans) ==
    [j \in 1..Len(matrix) |-> Activation(trans[j], Dot(row, matrix[j], 1))]

RECURSIVE EvaluateStages(_, _, _)
EvaluateStages(row, stages, trans) ==
    IF stages = <<>> THEN row
    ELSE EvaluateStages(ApplyStage(row, Head(stages), Head(trans)),
                        Tail(stages), Tail(trans))

----------------------------------------------------------------------------
\* The modelled nets

NodeIds == 0..(NumNodes - 1)

\* the activation letter of node id: nets mix the activations of nodes!
ActivationOf(id) == <<"l", "i", "q", "r">>[(id % 4) + 1]

\* the weight of the edge start -> end: 0, 1 or 2
WeightOf(start, end) == (start + 2 * end) % 3

Pairs == {p \in NodeIds \X NodeIds : p[1] # p[2]}

RECURSIVE SubsetsUpTo(_, _)
SubsetsUpTo(S, k) ==
    IF k = 0 THEN {{}}
    ELSE LET smaller == SubsetsUpTo(S, k - 1)
         IN  smaller \cup {p \cup {x} : p \in smaller, x \in S}

PairKey(p) == p[1] * NumNodes + p[2]

\* the edges of a pair set in ascending (start, end) order
EdgesOf(E) ==
    LET keys == SortUnstable(
                    LET RECURSIVE AsSeq(_)
                        AsSeq(S) == IF S = {} THEN <<>>
                                    ELSE LET x == CHOOSE y \in S : TRUE
                                         IN  <<PairKey(x)>> \o AsSeq(S \ {x})
                    IN  AsSeq(E))
    IN  [i \in 1..Len(keys) |->
            [start |-> keys[i] \div NumNodes,
             end |-> keys[i] % NumNodes,
             weight |-> WeightOf(keys[i] \div NumNodes, keys[i] % NumNodes)]]

\* how the caller declares the edges: in ascending order, in descending order,
\* or with the first edge declared a second time with another weight
Declarations == {"asc", "desc", "dup"}

EdgeList(E, decl) ==
    LET edges == EdgesOf(E) IN
    CASE decl = "asc" -> edges
      [] decl = "desc" -> Reverse(edges)
      [] decl = "dup" ->
            IF edges = <<>> THEN edges
            ELSE Append(edges, [edges[1] EXCEPT !.weight = edges[1].weight + 1])

\* Net::new(inputs, outputs, nodes!(..), edges)
NewNet(inputs, outputs, edges) ==
    [inputs |-> inputs,
     outputs |-> outputs,
     nodes |-> [i \in 1..NumNodes |-> [id |-> i - 1, activation |-> ActivationOf(i - 1)]],
     edges |-> edges,
     recurrent_edges |-> <<>>]

EdgeLists ==
    {l \in {EdgeList(E, decl) : E \in SubsetsUpTo(Pairs, MaxEdges), decl \in Declarations} :
        Len(l) <= MaxEdges}

Nets ==
    {NewNet(i, o, l) : i \in 1..MaxIO, o \in 1..MaxIO, l \in EdgeLists}

InputValues == {1, 2}

Rows(k) == [1..k -> InputValues]

----------------------------------------------------------------------------
\* State machine

NoNet == [inputs |-> 0, outputs |-> 0, nodes |-> <<>>, edges |-> <<>>,
          recurrent_edges |-> <<>>]

NoPrev ==
    [result |-> "none", compute_stages |-> <<>>, stage_transformations |-> <<>>,
     output_rows |-> <<>>]

InitFabricate ==
    /\ dependency_graph = <<>>
    /\ dependency_count = 0
    /\ compute_stages = <<>>
    /\ stage_transformations = <<>>
    /\ available_nodes = <<>>
    /\ wanted_nodes = <<>>
    /\ stage_matrix = <<>>
    /\ transformations = <<>>
    /\ next_available_nodes = <<>>
    /\ result = "none"
    /\ output_rows = <<>>
    /\ compiles = 0
    /\ prev = NoPrev

InitUnroll ==
    /\ known_inputs = <<>>
    /\ known_outputs = <<>>
    /\ known_edges = <<>>
    /\ unroll_map = <<>>
    /\ tmp_ids = 0
    /\ edge_index = 0
    /\ unrolled = NoNet

Init ==
    /\ net \in Nets
    /\ pc = "idle"
    /\ InitFabricate
    /\ InitUnroll

\* the caller is through with the current fabricate call (and, if it returned
\* an evaluator, has evaluated a row with it)
Finished ==
    \/ pc = "evaluated"
    \/ pc = "done" /\ result # "Ok"

\* lines 25-62: fabricate is called on the graph n; the edges are collected
\* and the empty graph is refused
FabricateCall(n) ==
    /\ compiles' = compiles + 1
    /\ prev' = IF pc = "idle" THEN prev
               ELSE [result |-> result, compute_stages |-> compute_stages,
                     stage_transformations |-> stage_transformations,
                     output_rows |-> output_rows]
    /\ LET graph == BuildDependencyGraph(n.edges) IN
       /\ dependency_graph' = graph
       /\ IF DOMAIN graph = {}
          THEN /\ result' = "Empty"
               /\ pc' = "done"
               /\ dependency_count' = 0
               /\ available_nodes' = <<>>
               /\ wanted_nodes' = <<>>
          ELSE /\ result' = "none"
               /\ pc' = "loop"
               /\ dependency_count' = Cardinality(DOMAIN graph)
               /\ available_nodes' = SortUnstable(Ids(NetInputs(n)))
               /\ wanted_nodes' = SortUnstable(Ids(NetOutputs(n)))
    /\ compute_stages' = <<>>
    /\ stage_transformations' = <<>>
    /\ stage_matrix' = <<>>
    /\ transformations' = <<>>
    /\ next_available_nodes' = <<>>
    /\ output_rows' = <<>>

\* fabricate is called on net, for the first time or once more
Fabricate ==
    /\ pc = "idle" \/ Finished
    /\ compiles < MaxCompiles
    /\ FabricateCall(net)
    /\ UNCHANGED <<net, unroll_vars>>

\* NoProgress that never reports a round without progress
NoProgress_Never(graph, count) == FALSE

\* lines 162-166: no dependency was removed by the round
NoProgress(graph, count) == Cardinality(DOMAIN graph) = count

\* the graph the running fabricate call was given: net, or what unroll made
\* of net once unroll has returned
Compiled == IF unrolled = NoNet THEN net ELSE unrolled

\* lines 65-212: one pass of the while loop, the dependency_graph iterated in
\* some order; the pass that empties the graph ends the call
Round ==
    /\ pc = "loop"
    /\ \E order \in Perms(DOMAIN dependency_graph) :
       \E round \in {RoundOf(Compiled, dependency_graph, available_nodes, wanted_nodes, order)} :
       \E graph \in {RemoveResolved(dependency_graph, round.next_available_nodes)} :
       \E last \in {ReorderLastStage(round, wanted_nodes)} :
        /\ stage_matrix' = round.stage_matrix
        /\ transformations' = round.transformations
        /\ next_available_nodes' = round.next_available_nodes
        /\ dependency_graph' = graph
        /\ IF NoProgress(graph, dependency_count)
           THEN /\ result' = "Unresolvable"
                /\ pc' = "done"
                /\ UNCHANGED <<dependency_count, compute_stages,
                               stage_transformations, available_nodes>>
           ELSE /\ dependency_count' = Cardinality(DOMAIN graph)
                /\ IF DOMAIN graph # {}
                   THEN /\ compute_stages' = Append(compute_stages, round.stage_matrix)
                        /\ stage_transformations' =
                               Append(stage_transformations, round.transformations)
                        /\ available_nodes' = round.next_available_nodes
                        /\ UNCHANGED <<result, pc>>
                   ELSE IF last.panicked
                   THEN /\ result' = "panic"
                        /\ pc' = "done"
                        /\ UNCHANGED <<compute_stages, stage_transformations,
                                       available_nodes>>
                   ELSE IF last.matched_wanted_count < Len(wanted_nodes)
                   THEN /\ result' = "IncompleteOutputs"
                        /\ pc' = "done"
                        /\ UNCHANGED <<compute_stages, stage_transformations,
                                       available_nodes>>
                   ELSE /\ compute_stages' = Append(compute_stages, last.reordered_matrix)
                        /\ stage_transformations' =
                               Append(stage_transformations, last.reordered_transformations)
                        /\ available_nodes' = round.next_available_nodes
                        /\ result' = "Ok"
                        /\ pc' = "done"
    /\ UNCHANGED <<net, wanted_nodes, output_rows, compiles, prev, unroll_vars>>

\* the caller evaluates every row of Rows with the evaluator fabricate returned
\* (evaluate keeps no state between calls)
Evaluate ==
    /\ pc = "done"
    /\ result = "Ok"
    /\ output_rows' = [row \in Rows(net.inputs) |->
                          EvaluateStages(row, compute_stages, stage_transformations)]
    /\ pc' = "evaluated"
    /\ UNCHANGED <<net, dependency_graph, dependency_count, compute_stages,
                   stage_transformations, available_nodes, wanted_nodes,
                   stage_matrix, transformations, next_available_nodes, result,
                   compiles, prev, unroll_vars>>

Next == Fabricate \/ Round \/ Evaluate

Spec == Init /\ [][Next]_vars

----------------------------------------------------------------------------
\* unroll (network/mod.rs)

UsizeMax == 2 ^ UsizeBits - 1

\* line 250: usize::MAX.shr(1), the first id of the range tmp_ids
WrapperIdsStart == UsizeMax \div 2

\* HashMap::insert
MapInsert(m, k, v) == [x \in DOMAIN m \cup {k} |-> IF x = k THEN v ELSE m[x]]

WrapperNode(id) == [id |-> id, activation |-> "id"]

\* lines 254-265: a wrapper input for every original output, used or not;
\* tmp_ids.next().unwrap() panics once the range is used up
RECURSIVE WrapOutputs(_, _, _)
WrapOutputs(acc, outputs, k) ==
    IF k > Len(outputs) \/ acc.panicked THEN acc
    ELSE IF acc.tmp_ids >= UsizeMax THEN [acc EXCEPT !.panicked = TRUE]
    ELSE WrapOutputs(
             [known_inputs |-> Append(acc.known_inputs, WrapperNode(acc.tmp_ids)),
              unroll_map |-> MapInsert(acc.unroll_map, outputs[k].id, acc.tmp_ids),
              tmp_ids |-> acc.tmp_ids + 1,
              panicked |-> FALSE],
             outputs, k + 1)

\* lines 282-286: carries the value of the source into the next evaluation
OutwardWrappingEdge(recurrent_edge, wrapper_output_id) ==
    [start |-> recurrent_edge.start, end |-> wrapper_output_id, weight |-> 1]

\* InwardWrappingConnection with the weight of the outward edge
InwardWrappingConnection_UnitWeight(recurrent_input, recurrent_edge) ==
    [start |-> recurrent_input, end |-> recurrent_edge.end, weight |-> 1]

\* lines 298-302: the recurrent edge, starting at the wrapper input instead
InwardWrappingConnection(recurrent_input, recurrent_edge) ==
    [start |-> recurrent_input, end |-> recurrent_edge.end,
     weight |-> recurrent_edge.weight]

\* lines 219-265: the nodes and edges are copied and the outputs wrapped
UnrollCall ==
    /\ \E wrapped \in {WrapOutputs([known_inputs |-> NetInputs(net),
                                    unroll_map |-> <<>>,
                                    tmp_ids |-> WrapperIdsStart,
                                    panicked |-> FALSE],
                                   NetOutputs(net), 1)} :
        /\ known_inputs' = wrapped.known_inputs
        /\ unroll_map' = wrapped.unroll_map
        /\ tmp_ids' = wrapped.tmp_ids
        /\ pc' = IF wrapped.panicked THEN "panic" ELSE "recurrent"
    /\ known_outputs' = NetOutputs(net)
    /\ known_edges' = net.edges
    /\ edge_index' = 1
    /\ UNCHANGED <<net, unrolled, fabricate_vars>>

\* unroll is called on net
Unroll ==
    /\ pc = "idle"
    /\ UnrollCall

\* lines 268-305: one recurrent edge; the first edge of a source that has no
\* entry in unroll_map creates its wrapper input, wrapper output and the
\* outward edge, every edge adds its inward edge
UnrollRecurrentEdge ==
    /\ pc = "recurrent"
    /\ edge_index <= Len(net.recurrent_edges)
    /\ LET recurrent_edge == net.recurrent_edges[edge_index] IN
       IF recurrent_edge.start \in DOMAIN unroll_map
       THEN /\ known_edges' = Append(known_edges,
                       InwardWrappingConnection(unroll_map[recurrent_edge.start],
                                                recurrent_edge))
            /\ edge_index' = edge_index + 1
            /\ UNCHANGED <<pc, known_inputs, known_outputs, unroll_map, tmp_ids>>
       ELSE IF tmp_ids + 1 >= UsizeMax
       THEN /\ pc' = "panic"
            /\ UNCHANGED <<known_inputs, known_outputs, known_edges, unroll_map,
                           tmp_ids, edge_index>>
       ELSE /\ known_inputs' = Append(known_inputs, WrapperNode(tmp_ids))
            /\ known_outputs' = Append(known_outputs, WrapperNode(tmp_ids + 1))
            /\ known_edges' = known_edges \o
                   <<OutwardWrappingEdge(recurrent_edge, tmp_ids + 1),
                     InwardWrappingConnection(tmp_ids, recurrent_edge)>>
            /\ unroll_map' = MapInsert(unroll_map, recurrent_edge.start, tmp_ids)
            /\ tmp_ids' = tmp_ids + 2
            /\ edge_index' = edge_index + 1
            /\ UNCHANGED pc
    /\ UNCHANGED <<net, unrolled, fabricate_vars>>

\* lines 307-319: the Net is assembled
UnrollReturn ==
    /\ pc = "recurrent"
    /\ edge_index > Len(net.recurrent_edges)
    /\ unrolled' = [inputs |-> Len(known_inputs),
                    outputs |-> Len(known_outputs),
                    nodes |-> known_inputs \o NetHidden(net) \o known_outputs,
                    edges |-> known_edges,
                    recurrent_edges |-> <<>>]
    /\ pc' = "unrolled"
    /\ UNCHANGED <<net, known_inputs, known_outputs, known_edges, unroll_map,
                   tmp_ids, edge_index, fabricate_vars>>

\* The nets handed to unroll: UnrollNodes nodes, numbered as nodes! numbers
\* them or with the last node's id in the upper half of usize

CallerIds ==
    {[i \in 1..UnrollNodes |-> i - 1],
     [i \in 1..UnrollNodes |-> IF i = UnrollNodes THEN WrapperIdsStart ELSE i - 1]}

Positions == 1..UnrollNodes

SeqsUpTo(S, k) == UNION {[1..n -> S] : n \in 0..k}

EdgeBetween(ids, p, extra) ==
    [start |-> ids[p[1]], end |-> ids[p[2]],
     weight |-> WeightOf(p[1] - 1, p[2] - 1) + extra]

\* the sequence of the elements of a set of position pairs, in ascending order
PairSeq(E) ==
    LET RECURSIVE AsSeq(_)
        AsSeq(S) == IF S = {} THEN <<>>
                    ELSE LET x == CHOOSE y \in S :
                                      \A z \in S : PairKey(y) <= PairKey(z)
                         IN  <<x>> \o AsSeq(S \ {x})
    IN  AsSeq(E)

Layouts == {l \in (1..MaxIO) \X (1..MaxIO) : l[1] + l[2] <= UnrollNodes}

RecurrentNets ==
    {[inputs |-> l[1],
      outputs |-> l[2],
      nodes |-> [k \in 1..UnrollNodes |->
                    [id |-> ids[k], activation |-> ActivationOf(k - 1)]],
      edges |-> [k \in 1..Len(PairSeq(E)) |-> EdgeBetween(ids, PairSeq(E)[k], 0)],
      recurrent_edges |-> [k \in 1..Len(r) |-> EdgeBetween(ids, r[k], 2)]] :
        l \in Layouts, ids \in CallerIds,
        E \in SubsetsUpTo({p \in Positions \X Positions : p[1] # p[2]}, MaxUnrollEdges),
        r \in SeqsUpTo(Positions \X Positions, MaxRecurrent)}

InitRecurrent ==
    /\ net \in RecurrentNets
    /\ pc = "idle"
    /\ InitFabricate
    /\ InitUnroll

NextUnroll == Unroll \/ UnrollRecurrentEdge \/ UnrollReturn

SpecUnroll == InitRecurrent /\ [][NextUnroll]_vars

----------------------------------------------------------------------------
\* The graph, read directly

EdgeSet(n) == {n.edges[i] : i \in 1..Len(n.edges)}

InputIds(n) == {n.nodes[i].id : i \in 1..n.inputs}

NoInputHasIncomingEdge(n) == \A e \in EdgeSet(n) : e.end \notin InputIds(n)

NoTwoEdgesShareStartAndEnd(n) ==
    \A i, j \in 1..Len(n.edges) :
        (n.edges[i].start = n.edges[j].start /\ n.edges[i].end = n.edges[j].end) => i = j

\* the position of an id in a list that holds it
IndexOf(s, x) == CHOOSE i \in 1..Len(s) : s[i] = x

\* the value of a node: an input's value is its entry of the row (inputs in
\* ascending id order); any other node's value is its activation applied to
\* the sum over its incoming edges of weight x value of the start
RECURSIVE GraphValue(_, _, _, _)
GraphValue(n, id, row, fuel) ==
    LET RECURSIVE Sum(_)
        Sum(i) ==
            IF i > Len(n.edges) THEN 0
            ELSE (IF n.edges[i].end = id
                  THEN n.edges[i].weight * GraphValue(n, n.edges[i].start, row, fuel - 1)
                  ELSE 0) + Sum(i + 1)
    IN  IF id \in InputIds(n) THEN row[IndexOf(SortUnstable(Ids(NetInputs(n))), id)]
        ELSE IF fuel = 0 THEN 0
        ELSE Activation(NodeActivation(n, id), Sum(1))

\* the nodes whose value can ever become available: the declared inputs, and
\* every edge end all of whose incoming edges start at such a node
RECURSIVE EverAvailable(_, _)
EverAvailable(n, A) ==
    LET more == A \cup {e.end : e \in {d \in EdgeSet(n) :
                           \A c \in EdgeSet(n) : c.end = d.end => c.start \in A}}
    IN  IF more = A THEN A ELSE EverAvailable(n, more)

\* the nodes reachable from id along one or more edges
RECURSIVE ReachableFrom(_, _)
ReachableFrom(n, R) ==
    LET more == R \cup {e.end : e \in {d \in EdgeSet(n) : d.start \in R}}
    IN  IF more = R THEN R ELSE ReachableFrom(n, more)

HasCycle(n) ==
    \E e \in EdgeSet(n) : e.start \in ReachableFrom(n, {e.end})

Returned == pc \in {"done", "evaluated"}

----------------------------------------------------------------------------
\* Claims

\* C1: whenever fabricate succeeds on a graph in which no input has an incoming
\* edge and no two edges share start and end, then for every input row and
\* every k up to the number of declared outputs, the k-th entry of the
\* evaluation result is the value of the k-th declared output (ascending id
\* order) read directly off the graph, whatever the edge declaration order.
C1_OutputsAreGraphValues ==
    (pc = "evaluated" /\ NoInputHasIncomingEdge(net) /\ NoTwoEdgesShareStartAndEnd(net)) =>
        \A row \in DOMAIN output_rows :
            \A k \in 1..net.outputs :
                /\ k <= Len(output_rows[row])
                /\ output_rows[row][k] =
                       GraphValue(net, SortUnstable(Ids(NetOutputs(net)))[k], row,
                                  Len(net.nodes))

\* C1 witness: a net with two outputs, declared in descending edge order,
\* compiled to two or more stages with a carried value, and evaluated to
\* non-zero outputs.
C1_Witness ==
    /\ pc = "evaluated"
    /\ NoInputHasIncomingEdge(net) /\ NoTwoEdgesShareStartAndEnd(net)
    /\ net.outputs = 2
    /\ Len(net.edges) >= 3
    /\ net.edges[1].start > net.edges[2].start
    /\ Len(compute_stages) >= 2
    /\ \E j \in 1..Len(stage_transformations[1]) : stage_transformations[1][j] = "id"
    /\ \E row \in DOMAIN output_rows :
           output_rows[row][1] # 0 /\ output_rows[row][2] # 0
                /\ output_rows[row][1] # output_rows[row][2]

\* C2: on every successful compilation the final stage has exactly one column
\* per declared output, and column k is the column (weights and
\* transformation) that the terminal round built for the k-th declared output.
C2_FinalStageIsDeclaredOutputs ==
    result = "Ok" =>
        /\ Len(Last(compute_stages)) = Len(wanted_nodes)
        /\ \A k \in 1..Len(wanted_nodes) :
               \E i \in 1..Len(next_available_nodes) :
                   /\ next_available_nodes[i] = wanted_nodes[k]
                   /\ Last(compute_stages)[k] = stage_matrix[i]
                   /\ Last(stage_transformations)[k] = transformations[i]

\* C3: whenever the dependency graph is fully resolved but some declared
\* output was neither produced nor carried in the terminal round, fabricate
\* returns IncompleteOutputs (no evaluator, no abort).
C3_MissingOutputIsIncompleteOutputs ==
    (/\ Returned
     /\ result # "Empty"
     /\ DOMAIN dependency_graph = {}
     /\ \E k \in 1..Len(wanted_nodes) : ~Contains(next_available_nodes, wanted_nodes[k]))
        => result = "IncompleteOutputs"

\* C4: a second compilation of the unchanged graph returns the same result:
\* the same stages with the same weight vectors and transformations in the
\* same column order, whatever the scan order of the dependency map.
C4_RepeatedCompilationIdentical ==
    (Returned /\ prev.result # "none") =>
        /\ result = prev.result
        /\ result = "Ok" =>
               /\ compute_stages = prev.compute_stages
               /\ stage_transformations = prev.stage_transformations

\* C5: two compilations of the unchanged graph yield evaluators that return
\* identical output rows (width and values) on identical inputs.
C5_RecompiledOutputsIdentical ==
    (pc = "evaluated" /\ prev.result = "Ok") => output_rows = prev.output_rows

\* C6: if the graph has an edge whose source can never become available (it
\* is no declared input and is never computed from available values),
\* fabricate fails: it returns no evaluator.
C6_UnavailableSourceNeverCompiles ==
    (Returned /\ \E e \in EdgeSet(net) : e.start \notin EverAvailable(net, InputIds(net)))
        => result # "Ok"

\* C7: a graph whose edges contain a directed cycle, through a declared input
\* or not, is never compiled successfully.
C7_CycleNeverCompiles ==
    (Returned /\ HasCycle(net)) => result # "Ok"

\* C8: fabricate returns Empty if and only if the edge list is empty, whatever
\* nodes, inputs and outputs are declared, and no stage is built before it.
C8_EmptyIffNoEdges ==
    Returned =>
        /\ result = "Empty" <=> net.edges = <<>>
        /\ result = "Empty" => compute_stages = <<>> /\ stage_transformations = <<>>

\* C8 witness: fabricate has returned Empty for a net without edges that
\* declares two inputs and two outputs.
C8_Witness ==
    /\ Returned
    /\ result = "Empty"
    /\ net.edges = <<>>
    /\ net.inputs = 2 /\ net.outputs = 2

----------------------------------------------------------------------------
\* What unroll added to the net

OutputIds(n) == {NetOutputs(n)[i].id : i \in 1..n.outputs}

AddedInputs == SubSeq(NetInputs(unrolled), net.inputs + 1, unrolled.inputs)

AddedOutputs == SubSeq(NetOutputs(unrolled), net.outputs + 1, unrolled.outputs)

AddedEdges == SubSeq(unrolled.edges, Len(net.edges) + 1, Len(unrolled.edges))

WrapperInputIds == {AddedInputs[i].id : i \in 1..Len(AddedInputs)}

WrapperOutputIds == {AddedOutputs[i].id : i \in 1..Len(AddedOutputs)}

\* the j-th recurrent edge is the first one of its source, and the source is
\* one that gets a wrapper pair of its own: any source (outputs_too), or any
\* source that is not a declared output
FirstOfSource(j, outputs_too) ==
    /\ \A i \in 1..(j - 1) : net.recurrent_edges[i].start # net.recurrent_edges[j].start
    /\ outputs_too \/ net.recurrent_edges[j].start \notin OutputIds(net)

PairsUpTo(j, outputs_too) == Cardinality({i \in 1..j : FirstOfSource(i, outputs_too)})

\* the wrapper pairs and edges of the recurrent edges, in the order unroll
\* adds them: one pair and one outward edge of weight 1 for the first edge of
\* every source that gets a pair, and for every recurrent edge one edge from
\* the source's wrapper input to the destination with the weight
WrapperPairs(outputs_too) ==
    LET edges == net.recurrent_edges
        pairs == PairsUpTo(Len(edges), outputs_too)
    IN  /\ Len(AddedOutputs) = pairs
        /\ Len(AddedInputs) = net.outputs + pairs
        /\ Len(AddedEdges) = Len(edges) + pairs
        /\ \A j \in 1..Len(edges) :
            LET m == PairsUpTo(j, outputs_too) IN
            /\ edges[j].start \in DOMAIN unroll_map
            /\ AddedEdges[j + m] = [start |-> unroll_map[edges[j].start],
                                    end |-> edges[j].end,
                                    weight |-> edges[j].weight]
            /\ FirstOfSource(j, outputs_too) =>
                   /\ AddedInputs[net.outputs + m].id = unroll_map[edges[j].start]
                   /\ AddedInputs[net.outputs + m].activation = "id"
                   /\ AddedOutputs[m].activation = "id"
                   /\ AddedEdges[j + m - 1] = [start |-> edges[j].start,
                                               end |-> AddedOutputs[m].id,
                                               weight |-> 1]

\* C9, as claimed: every distinct source of a recurrent edge, a declared
\* output included, gets exactly one wrapper-input/wrapper-output pair of its
\* own: the wrapper output is added to the outputs with one edge of weight 1
\* from the source, the wrapper input is added to the inputs, and every
\* recurrent edge of the source is replaced by an edge from that wrapper input
\* to the destination with the weight.
C9_EverySourceGetsAPair ==
    pc = "unrolled" => WrapperPairs(TRUE)

\* C9, amended: every distinct source of a recurrent edge that is not a
\* declared output gets exactly one wrapper pair of its own, as above; a source
\* that is a declared output gets none: its recurrent edges are replaced by
\* edges from the wrapper input unroll adds for that output.
C9_EveryNonOutputSourceGetsAPair ==
    pc = "unrolled" =>
        /\ WrapperPairs(FALSE)
        /\ \A k \in 1..net.outputs :
               unroll_map[NetOutputs(net)[k].id] = AddedInputs[k].id

\* C9 witness: unroll has returned for a net with a recurrent edge from a
\* declared output and a recurrent edge from a node that is no output.
C9_Witness ==
    /\ pc = "unrolled"
    /\ Len(net.recurrent_edges) = 2
    /\ net.recurrent_edges[1].start \in OutputIds(net)
    /\ net.recurrent_edges[2].start \notin OutputIds(net)
    /\ Len(AddedOutputs) = 1

\* C10: in the net unroll returns, no added edge is a recurrent edge's direct
\* source-to-destination edge, no edge ends at a wrapper input, no edge starts
\* at a wrapper output, no added edge lies on a directed cycle, and the net is
\* acyclic whenever the original non-recurrent edges are.
C10_RecurrentPathsAreCut ==
    pc = "unrolled" =>
        /\ \A p \in 1..Len(AddedEdges) : \A j \in 1..Len(net.recurrent_edges) :
               ~(/\ AddedEdges[p].start = net.recurrent_edges[j].start
                 /\ AddedEdges[p].end = net.recurrent_edges[j].end)
        /\ \A e \in EdgeSet(unrolled) : e.end \notin WrapperInputIds
        /\ \A e \in EdgeSet(unrolled) : e.start \notin WrapperOutputIds
        /\ \A p \in 1..Len(AddedEdges) :
               AddedEdges[p].start \notin ReachableFrom(unrolled, {AddedEdges[p].end})
        /\ ~HasCycle(net) => ~HasCycle(unrolled)

----------------------------------------------------------------------------
\* The ids unroll allocates

CallerNodeIds(n) == {n.nodes[i].id : i \in 1..Len(n.nodes)}

\* the ids taken from tmp_ids in the order unroll takes them: the wrapper
\* input of every output, then wrapper input and wrapper output of every pair
SyntheticIds ==
    [i \in 1..(Len(AddedInputs) + Len(AddedOutputs)) |->
        IF i <= net.outputs THEN AddedInputs[i].id
        ELSE LET m == (i - net.outputs + 1) \div 2 IN
             IF (i - net.outputs) % 2 = 1 THEN AddedInputs[net.outputs + m].id
             ELSE AddedOutputs[m].id]

\* C11: every synthetic node id that unroll allocates differs from every
\* caller-supplied node id of the graph, and the synthetic ids are handed out
\* in strictly increasing order (so no two of one call are equal).
C11_SyntheticIdsAreFresh ==
    pc = "unrolled" =>
        /\ \A i \in DOMAIN SyntheticIds : SyntheticIds[i] \notin CallerNodeIds(net)
        /\ \A i, j \in DOMAIN SyntheticIds : i < j => SyntheticIds[i] < SyntheticIds[j]

----------------------------------------------------------------------------
\* A recurrent net is compiled: its non-recurrent edges alone first, then what
\* unroll makes of it

\* fabricate is called on (the non-recurrent edges of) net, once
FabricateOnce ==
    /\ pc = "idle"
    /\ FabricateCall(net)
    /\ UNCHANGED <<net, unroll_vars>>

\* unroll is called on a net whose non-recurrent edges compiled
UnrollCompiled ==
    /\ pc = "done"
    /\ result = "Ok"
    /\ unrolled = NoNet
    /\ UnrollCall

\* fabricate is called on the net unroll returned
FabricateUnrolled ==
    /\ pc = "unrolled"
    /\ FabricateCall(unrolled)
    /\ UNCHANGED <<net, unroll_vars>>

NextRecurrent ==
    \/ FabricateOnce
    \/ Round
    \/ UnrollCompiled
    \/ UnrollRecurrentEdge
    \/ UnrollReturn
    \/ FabricateUnrolled

SpecRecurrent == InitRecurrent /\ [][NextRecurrent]_vars

\* fabricate is running on, or has returned for, the unrolled net
CompilingUnrolled == unrolled # NoNet /\ pc \in {"loop", "done"}

\* the unrolled net compiles: fabricate returns an evaluator whose terminal
\* round holds every wrapper output, and while it runs every wrapper input that
\* feeds a node still pending is in the available nodes
UnrolledCompiles ==
    /\ pc = "done" =>
           /\ result = "Ok"
           /\ \A id \in WrapperOutputIds : Contains(next_available_nodes, id)
    /\ pc = "loop" =>
           \A e \in EdgeSet(unrolled) :
               (e.start \in WrapperInputIds /\ e.end \in DOMAIN dependency_graph)
                   => Contains(available_nodes, e.start)

\* every source of a recurrent edge gets a value in the unrolled net: it is an
\* input, or all its incoming edges start at nodes that get a value
RecurrentSourcesGetValues ==
    \A i \in 1..Len(net.recurrent_edges) :
        net.recurrent_edges[i].start \in EverAvailable(unrolled, InputIds(unrolled))

\* C12, as claimed: for a recurrent graph whose non-recurrent edges alone
\* compile successfully and whose recurrent edges connect nodes of the graph,
\* fabricate applied to unroll(graph) succeeds: every wrapper output is
\* produced, every wrapper input that feeds a pending destination is carried
\* until that destination is computed, and unused per-output wrapper inputs do
\* not cause a failure.
C12_UnrolledCompiles ==
    CompilingUnrolled => UnrolledCompiles

\* C12, amended: the same, for a recurrent graph in which, moreover, every
\* source of a recurrent edge is a declared input or a node computed from
\* the inputs and wrapper inputs of the unrolled graph.
C12_UnrolledCompilesWhenSourcesComputed ==
    (CompilingUnrolled /\ RecurrentSourcesGetValues) => UnrolledCompiles

\* C12 witness: fabricate has returned an evaluator of two or more stages for
\* an unrolled net that has a wrapper pair of a hidden source, a wrapper input
\* carried over the first round, and a wrapper input no edge starts at.
C12_Witness ==
    /\ CompilingUnrolled
    /\ RecurrentSourcesGetValues
    /\ pc = "done" /\ result = "Ok"
    /\ Len(compute_stages) >= 2
    /\ \E i \in 1..Len(net.recurrent_edges) :
           /\ net.recurrent_edges[i].start \notin InputIds(net) \cup OutputIds(net)
           /\ net.recurrent_edges[i].end \notin InputIds(net)
    /\ \E id \in WrapperInputIds :
           \E j \in 1..Len(compute_stages[1]) :
               /\ stage_transformations[1][j] = "id"
               /\ compute_stages[1][j][IndexOf(SortUnstable(Ids(NetInputs(unrolled))), id)] = 1
    /\ \E id \in WrapperInputIds : \A e \in EdgeSet(unrolled) : e.start # id

----------------------------------------------------------------------------
\* Edges of weight 0

\* the edges of weight 0 of the compiled graph
ZeroEdges == {e \in EdgeSet(net) : e.weight = 0}

\* no other edge of the graph has the start and the end of e
OnlyEdgeOfItsEnds(e) ==
    \A d \in EdgeSet(net) : (d.start = e.start /\ d.end = e.end) => d = e

\* the columns the round that has just run computed (not carried) for node id
ComputedColumns(id) ==
    {i \in 1..Len(next_available_nodes) :
        next_available_nodes[i] = id /\ transformations[i] # "id"}

----------------------------------------------------------------------------
\* Termination

\* the number of distinct edge end nodes of the compiled graph
EdgeEnds == Cardinality({e.end : e \in EdgeSet(Compiled)})

\* the rounds the running call has run: one per stage kept, and the round that
\* ended in an error
RoundsRun ==
    Len(compute_stages) +
        (IF result \in {"Unresolvable", "IncompleteOutputs", "panic"} THEN 1 ELSE 0)

NextOnce == FabricateOnce \/ Round

\* one fabricate call, run without interruption: the thread that entered the
\* loop keeps running it until the call returns
SpecOnce == Init /\ [][NextOnce]_vars /\ WF_vars(Round)

\* C14: every round that does not end with the error Unresolvable removes at
\* least one node from the dependency graph, the number of rounds run is at
\* most the number of distinct edge end nodes, a returned evaluator has at
\* least one stage and at most that many, and fabricate returns.
C14_FabricateTerminates ==
    /\ [][pc = "loop" =>
            /\ result' # "Unresolvable" =>
                   Cardinality(DOMAIN dependency_graph') < Cardinality(DOMAIN dependency_graph)
            /\ RoundsRun' <= EdgeEnds
            /\ result' = "Ok" => (1 <= Len(compute_stages') /\ Len(compute_stages') <= EdgeEnds)]_vars
    /\ [](pc = "loop" => <>(pc = "done"))

\* C14 witness: fabricate has returned an evaluator with three stages for a
\* graph with three distinct edge end nodes.
C14_Witness ==
    /\ pc = "done" /\ result = "Ok"
    /\ EdgeEnds = 3
    /\ Len(compute_stages) = 3

----------------------------------------------------------------------------
\* The list of nodes a round produces or carries

NoDuplicates(s) == \A i, j \in 1..Len(s) : s[i] = s[j] => i = j

\* C15: in every round, each node id occurs at most once in the list of nodes
\* produced or carried by the round (next_available_nodes), whatever the scan
\* order: no node is both carried and produced, or carried twice.
C15_EachNodeOncePerRound ==
    NoDuplicates(next_available_nodes)

----------------------------------------------------------------------------
\* Values that are still needed

\* the node is the source of an edge into a node that is pending and not
\* computable in the round about to run
FeedsWaitingNode(id) ==
    \E e \in EdgeSet(Compiled) :
        /\ e.start = id
        /\ e.end \in DOMAIN dependency_graph
        /\ ~Computable(dependency_graph[e.end], available_nodes)

\* column i of the round's stage carries the node: a one-hot vector at a
\* position of available that holds the node, with the identity transformation
Carries(stage, trans, next, available, i, id) ==
    /\ next[i] = id
    /\ trans[i] = "id"
    /\ \E p \in 1..Len(available) :
           /\ available[p] = id
           /\ stage[i] = [q \in 1..Len(available) |-> IF q = p THEN 1 ELSE 0]

\* C16: in every round, every available node that is the source of an edge
\* into a pending node not computable in the round, or is a declared output,
\* is carried by the round (one-hot vector, identity transformation) into the
\* available nodes of the next round, the terminal round included.
C16_NeededValuesAreCarried ==
    [][pc = "loop" =>
        \A p \in 1..Len(available_nodes) :
            LET id == available_nodes[p] IN
            (FeedsWaitingNode(id) \/ Contains(wanted_nodes, id)) =>
                \E i \in 1..Len(next_available_nodes') :
                    Carries(stage_matrix', transformations', next_available_nodes',
                            available_nodes, i, id)]_vars

====
